---------------------------- MODULE Spec2Model ----------------------------
(***************************************************************************)
(* Model of DdCrpClustering (distance dependent Chinese restaurant         *)
(* process): the directed customer assignments c, the undirected graph g,  *)
(* the cluster ids mixture.z, the table counter K and the queue of         *)
(* reusable cluster numbers, under add_documents and _sample_document.     *)
(*                                                                         *)
(* Customers are the integers 0..N-1, as in the source; the Python lists   *)
(* c, g, mixture.z, timestamps and ids are functions with domain 0..n-1.   *)
(* _sample_document and the over-capacity branch of add_documents are cut  *)
(* at the return of _remove_assignment, so that the state between the two  *)
(* calls is a state of the model.  An exception ends the run: err names it *)
(* and the state is the one the handler had reached when it was raised.    *)
(*                                                                         *)
(* likelihood_cache is the dictionary of _likelihood_under_z, keyed by the *)
(* set of customers of a table; marginal_calls counts the calls of         *)
(* mixture.get_marginal_likelihood per key.  documents is the number of    *)
(* documents a run adds.                                                   *)
(***************************************************************************)
EXTENDS Integers, FiniteSets, Sequences, Bags

VARIABLES K_max, f, a, stamps, documents, N, K, ids, c, g, z, timestamps,
          reusable_numbers, timestamp, pc, cur, caller, err, last,
          likelihood_cache, marginal_calls, cache_hit

vars == << K_max, f, a, stamps, documents, N, K, ids, c, g, z, timestamps,
           reusable_numbers, timestamp, pc, cur, caller, err, last,
           likelihood_cache, marginal_calls, cache_hit >>

(* Bounds of the model. *)
MaxN == 4
MaxK == 2
MaxDay == 1
MaxA == 1
MaxNCache == 3

SecondsPerDay == 86400
Unassigned == -1

(* ---------------------------------------------------------------------- *)
(* Python lists indexed from 0.                                            *)
(* ---------------------------------------------------------------------- *)
Len0(l) == Cardinality(DOMAIN l)

Append0(l, x) == [k \in 0..Len0(l) |-> IF k < Len0(l) THEN l[k] ELSE x]

EmptyList == [k \in {} |-> 0]

(* l[k] of a Python list: a negative index counts from the end. *)
PyIndex(l, k) == IF k < 0 THEN l[Len0(l) + k] ELSE l[k]

(* ---------------------------------------------------------------------- *)
(* Decay functions: only whether the weight is 0 matters to math.log.      *)
(* ---------------------------------------------------------------------- *)
window_decay(d, aa) == IF d < aa THEN 1 ELSE 0

(* exp(-d / a) is a positive float for the distances of the model. *)
exponential_decay_is_zero(d) == FALSE

decay_is_zero(d) ==
    IF f = "window_decay" THEN window_decay(d, a) = 0
    ELSE exponential_decay_is_zero(d)

Abs(x) == IF x < 0 THEN 0 - x ELSE x

(* ---------------------------------------------------------------------- *)
(* The external mixture model and the queue of reusable numbers.           *)
(* ---------------------------------------------------------------------- *)
mixture_new_vector(zz, k) == Append0(zz, k)

mixture_merge(zz, table_no, table_to_join) ==
    [j \in DOMAIN zz |-> IF zz[j] = table_to_join THEN table_no ELSE zz[j]]

mixture_split(zz, old, new, members) ==
    [j \in DOMAIN zz |-> IF j \in members THEN new ELSE zz[j]]

InitialNumbers(kmax) == SetToBag(0..(kmax - 1))

(* The numbers get_nowait may hand out (the order of the queue is not    *)
(* fixed by the source); the empty set stands for queue.Empty.            *)
get_new_cluster_number(q) == BagToSet(q)

(* ---------------------------------------------------------------------- *)
(* Graph queries.                                                          *)
(* ---------------------------------------------------------------------- *)
(* The while loop of _is_table_split: cc is c, v the set visited. *)
RECURSIVE is_table_split_loop(_, _, _, _)
is_table_split_loop(cc, i, v, x) ==
    IF x \in v THEN TRUE
    ELSE LET nxt == PyIndex(cc, x)
         IN  IF nxt = i THEN FALSE
             ELSE is_table_split_loop(cc, i, v \cup {x}, nxt)

(* Variant: the loop does not test whether it is back at customer i. *)
RECURSIVE is_table_split_loop_no_return(_, _, _, _)
is_table_split_loop_no_return(cc, i, v, x) ==
    IF x \in v THEN TRUE
    ELSE is_table_split_loop_no_return(cc, i, v \cup {x}, PyIndex(cc, x))

is_table_split_no_return(cc, i) ==
    LET x == cc[i]
    IN  IF x = i THEN FALSE
        ELSE IF i = PyIndex(cc, x) THEN FALSE
        ELSE is_table_split_loop_no_return(cc, i, {i}, x)

(* Variant: coming back to customer i is reported as a split. *)
RECURSIVE is_table_split_loop_back_is_split(_, _, _, _)
is_table_split_loop_back_is_split(cc, i, v, x) ==
    IF x \in v THEN TRUE
    ELSE LET nxt == PyIndex(cc, x)
         IN  IF nxt = i THEN TRUE
             ELSE is_table_split_loop_back_is_split(cc, i, v \cup {x}, nxt)

is_table_split_back_is_split(cc, i) ==
    LET x == cc[i]
    IN  IF x = i THEN FALSE
        ELSE IF i = PyIndex(cc, x) THEN FALSE
        ELSE is_table_split_loop_back_is_split(cc, i, {i}, x)

is_table_split(cc, i) ==
    LET x == cc[i]
    IN  IF x = i THEN FALSE
        ELSE IF i = PyIndex(cc, x) THEN FALSE
        ELSE is_table_split_loop(cc, i, {i}, x)

(* What a call of _is_table_split does: the number of passes through the   *)
(* body of its while loop and the values it reads from c.                  *)
RECURSIVE is_table_split_trace_loop(_, _, _, _, _)
is_table_split_trace_loop(cc, i, v, x, tr) ==
    IF x \in v THEN tr
    ELSE LET nxt == PyIndex(cc, x)
             tr1 == [iterations |-> tr.iterations + 1,
                     reads |-> tr.reads \cup {nxt}]
         IN  IF nxt = i THEN tr1
             ELSE is_table_split_trace_loop(cc, i, v \cup {x}, nxt, tr1)

is_table_split_trace(cc, i) ==
    LET x == cc[i]
    IN  IF x = i THEN [iterations |-> 0, reads |-> {x}]
        ELSE IF i = PyIndex(cc, x)
             THEN [iterations |-> 0, reads |-> {x, PyIndex(cc, x)}]
             ELSE is_table_split_trace_loop(cc, i, {i}, x,
                      [iterations |-> 0, reads |-> {x, PyIndex(cc, x)}])

(* The values lines 177-178 of _remove_assignment read from c. *)
remove_assignment_reads(cc, i) == {cc[i], PyIndex(cc, cc[i])}

RECURSIVE SetToList(_)
SetToList(S) ==
    IF S = {} THEN << >>
    ELSE LET x == CHOOSE y \in S : TRUE IN << x >> \o SetToList(S \ {x})

(* The while loop of _get_people_next_to: a stack of customers to visit. *)
RECURSIVE get_people_next_to_loop(_, _, _)
get_people_next_to_loop(gg, visited, stack) ==
    IF Len(stack) = 0 THEN visited
    ELSE LET x == stack[Len(stack)]
             rest == SubSeq(stack, 1, Len(stack) - 1)
         IN  IF x \in visited THEN get_people_next_to_loop(gg, visited, rest)
             ELSE get_people_next_to_loop(gg, visited \cup {x},
                      rest \o SetToList(gg[x] \ (visited \cup {x})))

get_people_next_to(gg, x) == get_people_next_to_loop(gg, {}, << x >>)

(* ---------------------------------------------------------------------- *)
(* The two mutations, on a record s of the fields they read and write:     *)
(* c, g, z, K, pool (reusable_numbers) and err.                            *)
(* ---------------------------------------------------------------------- *)
State == [c |-> c, g |-> g, z |-> z, K |-> K, pool |-> reusable_numbers,
          err |-> err]

(* Variant: the tables are not joined. *)
add_assignment_no_merge(s, i, t) ==
    LET g1 == [s.g EXCEPT ![i] = @ \cup {t}]
        g2 == [g1 EXCEPT ![t] = @ \cup {i}]
    IN  [s EXCEPT !.c = [s.c EXCEPT ![i] = t], !.g = g2]

(* Variant: the customers move to the table with the larger number. *)
add_assignment_keeps_larger(s, i, t) ==
    LET join == s.z[i] # s.z[t]
        table_to_join == IF s.z[i] < s.z[t] THEN s.z[i] ELSE s.z[t]
        table_no == IF s.z[i] < s.z[t] THEN s.z[t] ELSE s.z[i]
        s1 == IF join
              THEN [s EXCEPT !.pool = @ (+) SetToBag({table_to_join}),
                             !.K = @ - 1,
                             !.z = mixture_merge(@, table_no, table_to_join)]
              ELSE s
        g1 == [s1.g EXCEPT ![i] = @ \cup {t}]
        g2 == [g1 EXCEPT ![t] = @ \cup {i}]
    IN  [s1 EXCEPT !.c = [s1.c EXCEPT ![i] = t], !.g = g2]

(* Variant: K is not decremented when tables are joined. *)
add_assignment_keeps_K(s, i, t) ==
    LET join == s.z[i] # s.z[t]
        table_to_join == IF s.z[i] > s.z[t] THEN s.z[i] ELSE s.z[t]
        table_no == IF s.z[i] > s.z[t] THEN s.z[t] ELSE s.z[i]
        s1 == IF join
              THEN [s EXCEPT !.pool = @ (+) SetToBag({table_to_join}),
                             !.z = mixture_merge(@, table_no, table_to_join)]
              ELSE s
        g1 == [s1.g EXCEPT ![i] = @ \cup {t}]
        g2 == [g1 EXCEPT ![t] = @ \cup {i}]
    IN  [s1 EXCEPT !.c = [s1.c EXCEPT ![i] = t], !.g = g2]

(* Variant: the number of the table that stays is put into the queue. *)
add_assignment_frees_kept_number(s, i, t) ==
    LET join == s.z[i] # s.z[t]
        table_to_join == IF s.z[i] > s.z[t] THEN s.z[i] ELSE s.z[t]
        table_no == IF s.z[i] > s.z[t] THEN s.z[t] ELSE s.z[i]
        s1 == IF join
              THEN [s EXCEPT !.pool = @ (+) SetToBag({table_no}),
                             !.K = @ - 1,
                             !.z = mixture_merge(@, table_no, table_to_join)]
              ELSE s
        g1 == [s1.g EXCEPT ![i] = @ \cup {t}]
        g2 == [g1 EXCEPT ![t] = @ \cup {i}]
    IN  [s1 EXCEPT !.c = [s1.c EXCEPT ![i] = t], !.g = g2]

(* Variant: c[i] is not set. *)
add_assignment_keeps_unassigned(s, i, t) ==
    LET join == s.z[i] # s.z[t]
        table_to_join == IF s.z[i] > s.z[t] THEN s.z[i] ELSE s.z[t]
        table_no == IF s.z[i] > s.z[t] THEN s.z[t] ELSE s.z[i]
        s1 == IF join
              THEN [s EXCEPT !.pool = @ (+) SetToBag({table_to_join}),
                             !.K = @ - 1,
                             !.z = mixture_merge(@, table_no, table_to_join)]
              ELSE s
        g1 == [s1.g EXCEPT ![i] = @ \cup {t}]
        g2 == [g1 EXCEPT ![t] = @ \cup {i}]
    IN  [s1 EXCEPT !.g = g2]

add_assignment(s, i, t) ==
    LET join == s.z[i] # s.z[t]
        table_to_join == IF s.z[i] > s.z[t] THEN s.z[i] ELSE s.z[t]
        table_no == IF s.z[i] > s.z[t] THEN s.z[t] ELSE s.z[i]
        s1 == IF join
              THEN [s EXCEPT !.pool = @ (+) SetToBag({table_to_join}),
                             !.K = @ - 1,
                             !.z = mixture_merge(@, table_no, table_to_join)]
              ELSE s
        g1 == [s1.g EXCEPT ![i] = @ \cup {t}]
        g2 == [g1 EXCEPT ![t] = @ \cup {i}]
    IN  [s1 EXCEPT !.c = [s1.c EXCEPT ![i] = t], !.g = g2]

(* Variant: the edge of a plain link stays in g. *)
remove_link_keeps_edge(s, i) ==
    LET x == s.c[i]
        g1 == IF x = i THEN [s.g EXCEPT ![i] = @ \ {i}] ELSE s.g
    IN  [s EXCEPT !.g = g1, !.c = [s.c EXCEPT ![i] = Unassigned]]

(* Variant: no case for the trivial cycle a <--> b. *)
remove_link_no_pair_case(s, i) ==
    LET x == s.c[i]
        g1 == IF x = i THEN [s.g EXCEPT ![i] = @ \ {i}]
              ELSE [s.g EXCEPT ![i] = @ \ {x}, ![x] = @ \ {i}]
    IN  [s EXCEPT !.g = g1, !.c = [s.c EXCEPT ![i] = Unassigned]]

(* Variant: the edge is taken out of g[i] and left in g[c]. *)
remove_link_one_side(s, i) ==
    LET x == s.c[i]
        c_c == PyIndex(s.c, x)
        g1 == IF x = i THEN [s.g EXCEPT ![i] = @ \ {i}]
              ELSE IF c_c = i THEN s.g
              ELSE [s.g EXCEPT ![i] = @ \ {x}]
    IN  [s EXCEPT !.g = g1, !.c = [s.c EXCEPT ![i] = Unassigned]]

(* Variant: a self link empties g[i]. *)
remove_link_clears_self(s, i) ==
    LET x == s.c[i]
        c_c == PyIndex(s.c, x)
        g1 == IF x = i THEN [s.g EXCEPT ![i] = {}]
              ELSE IF c_c = i THEN s.g
              ELSE [s.g EXCEPT ![i] = @ \ {x}, ![x] = @ \ {i}]
    IN  [s EXCEPT !.g = g1, !.c = [s.c EXCEPT ![i] = Unassigned]]

(* Variant: c[i] keeps the old target. *)
remove_link_keeps_target(s, i) ==
    LET x == s.c[i]
        c_c == PyIndex(s.c, x)
        g1 == IF x = i THEN [s.g EXCEPT ![i] = @ \ {i}]
              ELSE IF c_c = i THEN s.g
              ELSE [s.g EXCEPT ![i] = @ \ {x}, ![x] = @ \ {i}]
    IN  [s EXCEPT !.g = g1]

(* The graph and c after lines 176-189 of _remove_assignment. *)
remove_link(s, i) ==
    LET x == s.c[i]
        c_c == PyIndex(s.c, x)
        g1 == IF x = i THEN [s.g EXCEPT ![i] = @ \ {i}]
              ELSE IF c_c = i THEN s.g
              ELSE [s.g EXCEPT ![i] = @ \ {x}, ![x] = @ \ {i}]
    IN  [s EXCEPT !.g = g1, !.c = [s.c EXCEPT ![i] = Unassigned]]

(* Variant: only customer i moves to the new table. *)
remove_assignment_moves_only_i(s, i) ==
    LET is_split == is_table_split(s.c, i)
        s1 == remove_link(s, i)
    IN  IF ~is_split THEN {s1}
        ELSE IF get_new_cluster_number(s1.pool) = {}
             THEN {[s1 EXCEPT !.err = "Empty"]}
             ELSE {[s1 EXCEPT !.pool = @ (-) SetToBag({new_table_no}),
                              !.z = mixture_split(@, s1.z[i], new_table_no, {i}),
                              !.K = @ + 1]
                   : new_table_no \in get_new_cluster_number(s1.pool)}

(* Variant: the people next to i are taken from the graph before the link *)
(* was removed.                                                           *)
remove_assignment_stale_graph(s, i) ==
    LET is_split == is_table_split(s.c, i)
        s1 == remove_link(s, i)
    IN  IF ~is_split THEN {s1}
        ELSE IF get_new_cluster_number(s1.pool) = {}
             THEN {[s1 EXCEPT !.err = "Empty"]}
             ELSE {[s1 EXCEPT !.pool = @ (-) SetToBag({new_table_no}),
                              !.z = mixture_split(@, s1.z[i], new_table_no,
                                        get_people_next_to(s.g, i)),
                              !.K = @ + 1]
                   : new_table_no \in get_new_cluster_number(s1.pool)}

(* The states _remove_assignment may end in: one for each number the queue *)
(* may hand out, or the state in which queue.Empty was raised.             *)
remove_assignment(s, i) ==
    LET is_split == is_table_split(s.c, i)
        s1 == remove_link(s, i)
    IN  IF ~is_split THEN {s1}
        ELSE IF get_new_cluster_number(s1.pool) = {}
             THEN {[s1 EXCEPT !.err = "Empty"]}
             ELSE {[s1 EXCEPT !.pool = @ (-) SetToBag({new_table_no}),
                              !.z = mixture_split(@, s1.z[i], new_table_no,
                                        get_people_next_to(s1.g, i)),
                              !.K = @ + 1]
                   : new_table_no \in get_new_cluster_number(s1.pool)}

(* History: the last call that changed the links (op, its customer i and   *)
(* the fields before it), and for a removal that directly follows an add  *)
(* of the same customer, that add.                                        *)
NoCall == [op |-> "none", i |-> Unassigned]

Call(op, i, pre) ==
    [op |-> op, i |-> i, pre |-> pre,
     prev |-> IF op = "remove" /\ last.op = "add" /\ last.i = i
              THEN [op |-> last.op, i |-> last.i, pre |-> last.pre]
              ELSE NoCall]

(* ---------------------------------------------------------------------- *)
(* State after construction.                                               *)
(* ---------------------------------------------------------------------- *)
InitObject ==
    /\ K_max \in 1..MaxK
    /\ N = 0
    /\ K = 0
    /\ ids = EmptyList
    /\ c = EmptyList
    /\ g = EmptyList
    /\ z = EmptyList
    /\ timestamps = EmptyList
    /\ reusable_numbers = InitialNumbers(K_max)
    /\ timestamp = Unassigned
    /\ pc = "idle"
    /\ cur = Unassigned
    /\ caller = "none"
    /\ err = "none"
    /\ last = [op |-> "none", i |-> Unassigned, pre |-> State, prev |-> NoCall]
    /\ likelihood_cache = EmptyList
    /\ marginal_calls = EmptyList
    /\ cache_hit = FALSE

(* A decay function that is never 0; one timestamp is enough. *)
Init ==
    /\ f = "exponential_decay"
    /\ a = 1
    /\ stamps = {0}
    /\ documents = MaxN
    /\ InitObject

(* The same with fewer documents, for the runs that follow the likelihood  *)
(* cache.                                                                  *)
InitCache ==
    /\ f = "exponential_decay"
    /\ a = 1
    /\ stamps = {0}
    /\ documents = MaxNCache
    /\ InitObject

(* window_decay, which is 0 from distance a on. *)
InitWindow ==
    /\ f = "window_decay"
    /\ a \in 1..MaxA
    /\ stamps = 0..MaxDay
    /\ documents = MaxN
    /\ InitObject

Config == << K_max, f, a, stamps, documents >>

Cache == << likelihood_cache, marginal_calls, cache_hit >>

Store(s) ==
    /\ c' = s.c
    /\ g' = s.g
    /\ z' = s.z
    /\ K' = s.K
    /\ reusable_numbers' = s.pool
    /\ err' = s.err

(* ---------------------------------------------------------------------- *)
(* add_documents, one document of the loop.                                *)
(* ---------------------------------------------------------------------- *)
(* Variant: the customer index is used as the cluster number. *)
new_customer_own_number(s, i, k) ==
    [s EXCEPT !.c = Append0(@, i),
              !.g = Append0(@, {i}),
              !.z = mixture_new_vector(@, i),
              !.pool = @ (-) SetToBag({k}),
              !.K = @ + 1]

(* Lines 93-99, with the cluster number k handed out by the queue. *)
new_customer(s, i, k) ==
    [s EXCEPT !.c = Append0(@, i),
              !.g = Append0(@, {i}),
              !.z = mixture_new_vector(@, k),
              !.pool = @ (-) SetToBag({k}),
              !.K = @ + 1]

(* N + 1 <= K_max: the customer stays at its own table. *)
AddDocument(day) ==
    /\ pc = "idle" /\ err = "none" /\ N < documents
    /\ N + 1 <= K_max
    /\ \E k \in get_new_cluster_number(reusable_numbers) :
          /\ Store(new_customer(State, N, k))
          /\ last' = Call("new", N, State)
    /\ ids' = Append0(ids, N)
    /\ N' = N + 1
    /\ timestamps' = Append0(timestamps, (day * SecondsPerDay) \div SecondsPerDay)
    /\ cur' = N
    /\ caller' = "add_documents"
    /\ UNCHANGED << Config, Cache, timestamp, pc >>

(* N + 1 > K_max: up to the return of _remove_assignment(i) on line 102. *)
AddDocumentOverCapacity(day) ==
    /\ pc = "idle" /\ err = "none" /\ N < documents
    /\ N + 1 > K_max
    /\ \E k \in get_new_cluster_number(reusable_numbers) :
          LET s1 == new_customer(State, N, k)
          IN  \E s2 \in remove_assignment(s1, N) :
                 /\ Store(s2)
                 /\ last' = Call("remove", N, s1)
    /\ ids' = Append0(ids, N)
    /\ N' = N + 1
    /\ timestamp' = day * SecondsPerDay
    /\ pc' = "removed"
    /\ cur' = N
    /\ caller' = "add_documents"
    /\ UNCHANGED << Config, Cache, timestamps >>

(* The queue is empty on line 97: queue.Empty after lines 93-96. *)
AddDocumentEmpty ==
    /\ pc = "idle" /\ err = "none" /\ N < documents
    /\ get_new_cluster_number(reusable_numbers) = {}
    /\ ids' = Append0(ids, N)
    /\ c' = Append0(c, N)
    /\ g' = Append0(g, {N})
    /\ err' = "Empty"
    /\ cur' = N
    /\ caller' = "add_documents"
    /\ last' = Call("new", N, State)
    /\ UNCHANGED << Config, Cache, N, K, z, timestamps, reusable_numbers, timestamp, pc >>

(* Lines 103-106: random.randint(0, i) is any of 0..i. *)
OverCapacityLink(t) ==
    /\ pc = "removed" /\ err = "none" /\ caller = "add_documents"
    /\ t \in 0..cur
    /\ Store(add_assignment(State, cur, t))
    /\ last' = Call("add", cur, State)
    /\ timestamps' = Append0(timestamps, timestamp \div SecondsPerDay)
    /\ timestamp' = Unassigned
    /\ pc' = "idle"
    /\ UNCHANGED << Config, Cache, N, ids, cur, caller >>

(* ---------------------------------------------------------------------- *)
(* _sample_document(i).                                                    *)
(* ---------------------------------------------------------------------- *)
(* Line 115, returning. *)
SampleRemove(i) ==
    /\ pc = "idle" /\ err = "none"
    /\ i \in 0..(N - 1)
    /\ \E s2 \in remove_assignment(State, i) :
          /\ s2.err = "none"
          /\ Store(s2)
    /\ last' = Call("remove", i, State)
    /\ pc' = "removed"
    /\ cur' = i
    /\ caller' = "_sample_document"
    /\ UNCHANGED << Config, Cache, N, ids, timestamps, timestamp >>

(* Line 115, raising queue.Empty on line 192. *)
SampleRemoveEmpty(i) ==
    /\ pc = "idle" /\ err = "none"
    /\ i \in 0..(N - 1)
    /\ \E s2 \in remove_assignment(State, i) :
          /\ s2.err = "Empty"
          /\ Store(s2)
    /\ last' = Call("remove", i, State)
    /\ cur' = i
    /\ caller' = "_sample_document"
    /\ UNCHANGED << Config, Cache, N, ids, timestamps, timestamp, pc >>

(* The candidates t # i of _get_assignment_probabilities whose decay is 0. *)
zero_weight(i) ==
    {t \in 0..(N - 1) :
        t # i /\ decay_is_zero(Abs(timestamps[i] - timestamps[t]))}

(* ---------------------------------------------------------------------- *)
(* The likelihood cache: a dict from a set of customers to the value that  *)
(* mixture.get_marginal_likelihood returned for it.  A value is written as *)
(* the set it was computed for and the number of the invocation for that   *)
(* set which returned it; marginal_calls counts the invocations.           *)
(* ---------------------------------------------------------------------- *)
CacheState == [cache |-> likelihood_cache, calls |-> marginal_calls,
               hit |-> FALSE]

get_marginal_likelihood(calls, members) ==
    [members |-> members,
     invocation |-> IF members \in DOMAIN calls THEN calls[members] + 1 ELSE 1]

Put(d, key, value) ==
    [x \in DOMAIN d \cup {key} |-> IF x = key THEN value ELSE d[x]]

(* Variant: the value is computed and not stored. *)
cached_marginal_no_store(st, members) ==
    IF members \in DOMAIN st.cache
    THEN [st EXCEPT !.hit = TRUE]
    ELSE LET v == get_marginal_likelihood(st.calls, members)
         IN  [st EXCEPT !.calls = Put(@, members, v.invocation)]

(* One of the three if/else blocks of _likelihood_under_z. *)
cached_marginal(st, members) ==
    IF members \in DOMAIN st.cache
    THEN [st EXCEPT !.hit = TRUE]
    ELSE LET v == get_marginal_likelihood(st.calls, members)
         IN  [st EXCEPT !.calls = Put(@, members, v.invocation),
                        !.cache = Put(@, members, v)]

likelihood_under_z(st, gg, i, t) ==
    LET table_k_members == get_people_next_to(gg, i)
        table_l_members == get_people_next_to(gg, t)
        table_kl_members == table_k_members \cup table_l_members
    IN  cached_marginal(
            cached_marginal(cached_marginal(st, table_k_members),
                            table_l_members),
            table_kl_members)

(* The loop of _get_assignment_probabilities from candidate x on: only a   *)
(* candidate of another table reaches _likelihood_under_z.                 *)
RECURSIVE get_assignment_probabilities(_, _, _)
get_assignment_probabilities(st, i, x) ==
    IF x >= N THEN st
    ELSE get_assignment_probabilities(
             IF x # i /\ z[i] # z[x] THEN likelihood_under_z(st, g, i, x)
             ELSE st,
             i, x + 1)

(* Lines 118-129: every candidate has a weight above 0, any may be drawn.  *)
(* The likelihood cache is not followed: it feeds the weights only.        *)
SampleLink(t) ==
    /\ pc = "removed" /\ err = "none" /\ caller = "_sample_document"
    /\ zero_weight(cur) = {}
    /\ t \in 0..(N - 1)
    /\ Store(add_assignment(State, cur, t))
    /\ last' = Call("add", cur, State)
    /\ pc' = "idle"
    /\ UNCHANGED << Config, Cache, N, ids, timestamps, timestamp, cur, caller >>

(* Lines 118-129 with the likelihood cache. *)
SampleLinkCached(t) ==
    /\ pc = "removed" /\ err = "none" /\ caller = "_sample_document"
    /\ zero_weight(cur) = {}
    /\ t \in 0..(N - 1)
    /\ LET st == get_assignment_probabilities(CacheState, cur, 0)
       IN  /\ likelihood_cache' = st.cache
           /\ marginal_calls' = st.calls
           /\ cache_hit' = st.hit
    /\ Store(add_assignment(State, cur, t))
    /\ last' = Call("add", cur, State)
    /\ pc' = "idle"
    /\ UNCHANGED << Config, N, ids, timestamps, timestamp, cur, caller >>

(* Line 118: math.log(0) raises ValueError on line 235 or 237. *)
SampleLogZero ==
    /\ pc = "removed" /\ err = "none" /\ caller = "_sample_document"
    /\ zero_weight(cur) # {}
    /\ err' = "ValueError"
    /\ UNCHANGED << Config, Cache, N, K, ids, c, g, z, timestamps, reusable_numbers,
                    timestamp, pc, cur, caller, last >>

Next ==
    \/ \E day \in stamps : AddDocument(day)
    \/ \E day \in stamps : AddDocumentOverCapacity(day)
    \/ AddDocumentEmpty
    \/ \E t \in 0..MaxN : OverCapacityLink(t)
    \/ \E i \in 0..MaxN : SampleRemove(i)
    \/ \E i \in 0..MaxN : SampleRemoveEmpty(i)
    \/ \E t \in 0..MaxN : SampleLink(t)

NextWindow == Next \/ SampleLogZero

Spec == Init /\ [][Next]_vars

SpecWindow == InitWindow /\ [][NextWindow]_vars

NextCache ==
    \/ \E day \in stamps : AddDocument(day)
    \/ \E day \in stamps : AddDocumentOverCapacity(day)
    \/ AddDocumentEmpty
    \/ \E t \in 0..MaxN : OverCapacityLink(t)
    \/ \E i \in 0..MaxN : SampleRemove(i)
    \/ \E i \in 0..MaxN : SampleRemoveEmpty(i)
    \/ \E t \in 0..MaxN : SampleLinkCached(t)

SpecCache == InitCache /\ [][NextCache]_vars

(* ---------------------------------------------------------------------- *)
(* Vocabulary of the properties, defined from c, g and z alone.            *)
(* ---------------------------------------------------------------------- *)
Customers == 0..(N - 1)

(* The customers connected to those of S in the undirected graph gg. *)
RECURSIVE Connected(_, _)
Connected(gg, S) ==
    LET T == S \cup UNION {gg[x] : x \in S}
    IN  IF T = S THEN S ELSE Connected(gg, T)

Component(gg, i) == Connected(gg, {i})

(* cc[cc[...cc[i]]], k times; it stops at an unassigned customer. *)
RECURSIVE Follow(_, _, _)
Follow(cc, i, k) ==
    IF k = 0 \/ i = Unassigned THEN i ELSE Follow(cc, cc[i], k - 1)

Path(cc, i) == {Follow(cc, i, k) : k \in 0..Len0(cc)}

OnCycle(cc, i) == \E k \in 1..Len0(cc) : Follow(cc, i, k) = i

LeadsTo(cc, j, i) == i \in Path(cc, j)

Members(zz, k) == {j \in DOMAIN zz : zz[j] = k}

Ids(zz) == {zz[j] : j \in DOMAIN zz}

Returned == err = "none"

(* C1: when no call has been cut short, two customers are connected in g   *)
(* if and only if they have the same cluster id in mixture.z; this holds   *)
(* between _remove_assignment and _add_assignment too.                     *)
C1_ComponentsAreClusters ==
    Returned =>
        \A i \in Customers :
            LET comp == Component(g, i)
            IN  \A j \in Customers : (j \in comp) <=> (z[i] = z[j])

(* A removal has just split a table of three or more into two tables. *)
C1_Witness ==
    /\ Returned /\ pc = "removed" /\ caller = "_sample_document"
    /\ is_table_split(last.pre.c, cur)
    /\ Cardinality(Component(last.pre.g, cur)) >= 3
    /\ Cardinality(Component(g, cur)) >= 2
    /\ z[cur] # last.pre.z[cur]

(* C2: when every customer has a link, each component of g holds exactly   *)
(* one directed cycle of c, and the path c[i], c[c[i]], ... of a customer  *)
(* stays in its component and ends on that cycle.                          *)
C2_OneCyclePerComponent ==
    (Returned /\ pc = "idle") =>
        \A i \in Customers :
            LET comp == Component(g, i)
                cycles == {Path(c, j) : j \in {x \in comp : OnCycle(c, x)}}
            IN  /\ Cardinality(cycles) = 1
                /\ Path(c, i) \subseteq comp
                /\ OnCycle(c, Follow(c, i, N))

(* Four customers: a cycle of three and a customer linked into it. *)
C2_Witness ==
    /\ Returned /\ pc = "idle" /\ N = 4
    /\ \E i \in Customers :
          /\ OnCycle(c, i) /\ Cardinality(Path(c, i)) = 3
          /\ \E j \in Customers : ~OnCycle(c, j) /\ j \in Component(g, i)

AfterRemove == Returned /\ pc = "removed" /\ last.op = "remove"

(* The state is the one an _add_assignment(cur, c[cur]) has just returned in. *)
AfterAdd == Returned /\ pc = "idle" /\ last.op = "add"

Moved == {j \in Customers : z[j] # last.pre.z[j]}

(* C4: a _remove_assignment(i) that detects a split and returns moves      *)
(* exactly i and the customers whose c-path leads to i to one new id: a    *)
(* non-empty proper subset of the old cluster, the id unused before, all  *)
(* other ids kept, K one more; without a split z and K are unchanged.     *)
C4_SplitMovesSubtree ==
    AfterRemove =>
        LET pre == last.pre
            i == cur
            old == Members(pre.z, pre.z[i])
        IN  IF is_table_split(pre.c, i)
            THEN /\ Moved = {j \in Customers : LeadsTo(pre.c, j, i)}
                 /\ i \in Moved
                 /\ Moved \subseteq old /\ Moved # old
                 /\ \A j \in Moved : z[j] = z[i]
                 /\ z[i] \notin Ids(pre.z)
                 /\ \A j \in Customers \ Moved : z[j] = pre.z[j]
                 /\ K = pre.K + 1
            ELSE z = pre.z /\ K = pre.K

(* A split that moved two customers out of a cluster of three or more. *)
C4_Witness ==
    /\ AfterRemove /\ is_table_split(last.pre.c, cur)
    /\ Cardinality(Moved) = 2
    /\ K = last.pre.K + 1

(* C5: _add_assignment(i, t) with different ids moves both clusters to the *)
(* smaller id, leaves the larger id unused and once in the queue, lowers K *)
(* by one and keeps all other ids; with equal ids z, K and the queue are   *)
(* unchanged.                                                              *)
C5_MergeIntoSmallerId ==
    AfterAdd =>
        LET pre == last.pre
            i == cur
            t == c[cur]
            lo == IF pre.z[i] < pre.z[t] THEN pre.z[i] ELSE pre.z[t]
            hi == IF pre.z[i] < pre.z[t] THEN pre.z[t] ELSE pre.z[i]
            both == Members(pre.z, lo) \cup Members(pre.z, hi)
        IN  IF pre.z[i] # pre.z[t]
            THEN /\ \A j \in both : z[j] = lo
                 /\ hi \notin Ids(z)
                 /\ reusable_numbers = pre.pool (+) SetToBag({hi})
                 /\ CopiesIn(hi, reusable_numbers) = 1
                 /\ K = pre.K - 1
                 /\ \A j \in Customers \ both : z[j] = pre.z[j]
            ELSE z = pre.z /\ K = pre.K /\ reusable_numbers = pre.pool

(* A merge of two clusters of two customers each. *)
C5_Witness ==
    /\ AfterAdd
    /\ last.pre.z[cur] # last.pre.z[c[cur]]
    /\ Cardinality(Members(last.pre.z, last.pre.z[cur])) = 2
    /\ Cardinality(Members(last.pre.z, last.pre.z[c[cur]])) = 2

(* The last call is a _remove_assignment(i) that directly follows an       *)
(* _add_assignment(i, t) which merged two clusters.                        *)
RemoveAfterMerge ==
    /\ last.op = "remove" /\ last.prev.op = "add"
    /\ last.prev.pre.z[last.i] # last.prev.pre.z[last.pre.c[last.i]]

(* C6: a _remove_assignment(i) directly after a merging                    *)
(* _add_assignment(i, t) detects a split, returns, and leaves the two      *)
(* clusters with the member sets they had before the merge.                *)
C6_RemoveUndoesMerge ==
    RemoveAfterMerge =>
        LET i == last.i
            t == last.pre.c[i]
            before == last.prev.pre.z
            A == Members(before, before[i])
            B == Members(before, before[t])
            merged == Members(last.pre.z, last.pre.z[i])
        IN  /\ is_table_split(last.pre.c, i)
            /\ Returned
            /\ z[i] # z[t]
            /\ Members(z, z[i]) = A
            /\ Members(z, z[t]) = B
            /\ A \cap B = {}
            /\ A \cup B = merged

(* The merge joined clusters of two and two, the removal has returned. *)
C6_Witness ==
    /\ RemoveAfterMerge /\ Returned
    /\ Cardinality(Members(z, z[cur])) = 2
    /\ Cardinality(Members(z, z[last.pre.c[cur]])) = 2

(* C7: g is the symmetrization of c in every state: j is in g[i] if and   *)
(* only if c[i] = j or c[j] = i, an unassigned c[i] being no link.        *)
C7_GraphIsSymmetrization ==
    \A i \in DOMAIN c : \A j \in DOMAIN c :
        (j \in g[i]) <=> (c[i] = j \/ c[j] = i)

(* A mutual pair has lost one of its links and kept its edge, and a third *)
(* customer is linked to the unassigned one.                              *)
C7_Witness ==
    /\ AfterRemove
    /\ last.pre.c[last.pre.c[cur]] = cur /\ last.pre.c[cur] # cur
    /\ \E j \in Customers : c[j] = cur /\ j # last.pre.c[cur]

(* C8: a decay of 0 for some candidate does not make _sample_document      *)
(* raise, and the customer is not left unassigned.                         *)
C8_ZeroDecayTolerated ==
    ~(err = "ValueError" /\ caller = "_sample_document" /\ c[cur] = Unassigned)

(* C9: when add_documents returns from the branch N > K_max, the new       *)
(* customer is linked to another customer, is no singleton, and the       *)
(* number of clusters is the one before the ingestion.                    *)
C9_OverCapacityNotSingleton ==
    (AfterAdd /\ caller = "add_documents") =>
        /\ c[cur] # cur
        /\ c[cur] \in 0..(cur - 1)
        /\ Members(z, z[cur]) # {cur}
        /\ K = last.pre.K - 1

(* C10: every id in mixture.z is in 0..K_max-1 and K is at most K_max, in  *)
(* every state.                                                            *)
C10_IdsBelowCapacity ==
    /\ \A j \in DOMAIN z : z[j] \in 0..(K_max - 1)
    /\ K <= K_max

(* More customers than K_max, K_max tables, and the last one came from a  *)
(* split.                                                                  *)
C10_Witness ==
    /\ AfterRemove /\ is_table_split(last.pre.c, cur)
    /\ N > K_max /\ K = K_max
    /\ Ids(z) = 0..(K_max - 1)

(* C11: mixture.get_marginal_likelihood is invoked at most once for a set  *)
(* of customers, and the cache holds for every set the value its first     *)
(* invocation returned, in every state.                                    *)
C11_CacheComputesOnce ==
    /\ DOMAIN likelihood_cache = DOMAIN marginal_calls
    /\ \A members \in DOMAIN marginal_calls :
          /\ marginal_calls[members] <= 1
          /\ likelihood_cache[members]
                 = [members |-> members, invocation |-> 1]

(* The last _sample_document found a set in the cache, which holds at      *)
(* least four sets.                                                        *)
C11_Witness ==
    /\ cache_hit
    /\ Cardinality(DOMAIN likelihood_cache) >= 4

(* The components of g that the customers of S are in. *)
ComponentsOf(gg, S) == {Component(gg, j) : j \in S}

(* The length of the directed cycle that i is on. *)
CycleLength(cc, i) == Cardinality(Path(cc, i))

OneUnassigned ==
    /\ \A j \in DOMAIN c :
          c[j] = Unassigned => (j = cur /\ (pc = "removed" \/ ~Returned))
    /\ last.op = "add" =>
          /\ last.pre.c[last.i] = Unassigned
          /\ \A j \in DOMAIN last.pre.c \ {last.i} : last.pre.c[j] # Unassigned
    /\ (Returned /\ pc = "idle") =>
          /\ DOMAIN c = Customers
          /\ \A j \in Customers : c[j] \in 0..(N - 1)

(* A step that calls _add_assignment(i, .) starts in the state that the    *)
(* _remove_assignment(i) of the same caller returned in.                   *)
AddFollowsRemove ==
    (last' # last /\ last'.op = "add") =>
        /\ last.op = "remove" /\ last.i = last'.i
        /\ pc = "removed" /\ cur = last'.i /\ caller' = caller
        /\ last'.pre = State

(* C13: every _add_assignment(i, .) directly follows the                   *)
(* _remove_assignment(i) and finds c[i] unassigned, at most one customer   *)
(* is unassigned and it is the one in work, and after a return of          *)
(* _sample_document or add_documents every c[j] is in 0..N-1.              *)
C13_RemoveBeforeAdd == []OneUnassigned /\ [][AddFollowsRemove]_vars

(* _sample_document has returned with four customers, after linking a      *)
(* customer that was unassigned to another one.                            *)
C13_Witness ==
    /\ Returned /\ pc = "idle" /\ caller = "_sample_document" /\ N = 4
    /\ last.op = "add" /\ last.pre.c[cur] = Unassigned /\ c[cur] # cur

(* C14: after a _remove_assignment(i), returned or not: on a mutual pair g *)
(* is unchanged, on a self link g differs in g[i] only, which has lost i,  *)
(* and in both cases z, K and the queue are unchanged; in every case c     *)
(* differs at i only and g at i and at the old c[i] only.                  *)
C14_RemoveFrame ==
    last.op = "remove" =>
        LET pre == last.pre
            i == last.i
            t == pre.c[i]
            same == z = pre.z /\ K = pre.K /\ reusable_numbers = pre.pool
        IN  /\ (t # i /\ pre.c[t] = i) => (g = pre.g /\ same)
            /\ (t = i) => (g = [pre.g EXCEPT ![i] = @ \ {i}] /\ same)
            /\ DOMAIN c = DOMAIN pre.c /\ DOMAIN g = DOMAIN pre.g
            /\ \A j \in DOMAIN c \ {i} : c[j] = pre.c[j]
            /\ \A j \in DOMAIN g \ {i, t} : g[j] = pre.g[j]

(* The self link of a customer that others are linked to has been removed. *)
C14_Witness ==
    /\ last.op = "remove" /\ pc = "removed" /\ caller = "_sample_document"
    /\ last.pre.c[cur] = cur
    /\ Cardinality(g[cur]) = 2

(* The link of one customer of a mutual pair, in a component of three or   *)
(* more, has been removed.                                                 *)
C14_WitnessPair ==
    /\ last.op = "remove" /\ pc = "removed"
    /\ last.pre.c[cur] # cur /\ last.pre.c[last.pre.c[cur]] = cur
    /\ Cardinality(Component(g, cur)) >= 3

(* _is_table_split(i) on the lists cc and gg: the loop body runs at most   *)
(* as often as the component of i has customers, and neither it nor        *)
(* _remove_assignment reads an unassigned entry of c.                      *)
BoundedTraversal(cc, gg, i) ==
    LET tr == is_table_split_trace(cc, i)
    IN  /\ tr.iterations <= Cardinality(Component(gg, i))
        /\ Unassigned \notin tr.reads
        /\ Unassigned \notin remove_assignment_reads(cc, i)

(* C15: that holds of every call _remove_assignment(i) that was made, and  *)
(* of every call that can be made next.                                    *)
C15_SplitTestBounded ==
    /\ last.op = "remove" => BoundedTraversal(last.pre.c, last.pre.g, last.i)
    /\ (Returned /\ pc = "idle") =>
           \A i \in Customers : BoundedTraversal(c, g, i)

(* A traversal of three passes: from a customer off the cycle, in a        *)
(* component of four.                                                      *)
C15_Witness ==
    /\ last.op = "remove" /\ pc = "removed"
    /\ is_table_split_trace(last.pre.c, cur).iterations = 3
    /\ is_table_split(last.pre.c, cur)
    /\ Cardinality(Component(last.pre.g, cur)) = 4

(* After every call that returned, K is the number of ids in z and the     *)
(* number of components of g.                                              *)
TableCountExact ==
    Returned =>
        /\ K = Cardinality(Ids(z))
        /\ K = Cardinality(ComponentsOf(g, Customers))

(* The two halves of _sample_document: the removal adds at most one table, *)
(* the new link takes at most one away.                                    *)
SampleChangesKByOne ==
    /\ (pc = "idle" /\ pc' = "removed" /\ caller' = "_sample_document")
           => (K' = K \/ K' = K + 1)
    /\ (pc = "removed" /\ pc' = "idle" /\ caller = "_sample_document")
           => (K' = K \/ K' = K - 1)

(* C16: K is exact after every completed ingestion, _remove_assignment and *)
(* _add_assignment, and a _sample_document call changes it by at most one  *)
(* up (its removal) and at most one down (its new link).                   *)
C16_TableCounterExact == []TableCountExact /\ [][SampleChangesKByOne]_vars

(* The new link of _sample_document has joined the only two tables, one   *)
(* of three customers and one of one.                                      *)
C16_Witness ==
    /\ AfterAdd /\ caller = "_sample_document" /\ N = 4
    /\ last.pre.K = 2 /\ K = 1
    /\ Cardinality(Members(last.pre.z, last.pre.z[c[cur]])) = 3
    /\ Cardinality(ComponentsOf(g, Customers)) = 1

(* C17: in every state no number in the queue of reusable numbers is an id *)
(* in z and none is in the queue twice; the number handed out for a new    *)
(* customer or for a split was the id of no customer before; and customers *)
(* with the same id are in the same component of g.                        *)
C17_PoolSafety ==
    /\ \A k \in BagToSet(reusable_numbers) :
          /\ k \notin Ids(z)
          /\ CopiesIn(k, reusable_numbers) = 1
    /\ (Returned /\ last.op = "new") => z[last.i] \notin Ids(last.pre.z)
    /\ (last.op = "remove" /\ caller = "add_documents") =>
          last.pre.z[last.i] \notin {last.pre.z[j] : j \in 0..(last.i - 1)}
    /\ (AfterRemove /\ is_table_split(last.pre.c, cur)) =>
          z[cur] \notin Ids(last.pre.z)
    /\ Returned =>
          \A i \in Customers :
              LET comp == Component(g, i)
              IN  \A j \in Customers : z[i] = z[j] => j \in comp

(* A split has taken number 1 from the queue, where a merge had put it. *)
C17_Witness ==
    /\ AfterRemove /\ is_table_split(last.pre.c, cur) /\ N = 4
    /\ last.pre.pool = SetToBag({1})
    /\ z[cur] = 1
    /\ BagToSet(reusable_numbers) = {}

(* The directed cycles of cc among the customers of S, as sets. *)
CyclesIn(cc, S) == {Path(cc, j) : j \in {x \in S : OnCycle(cc, x)}}

(* The edges of gg between different customers of S, and its loops. *)
EdgesIn(gg, S) == {e \in S \X S : e[1] < e[2] /\ e[2] \in gg[e[1]]}

LoopsIn(gg, S) == {x \in S : x \in gg[x]}

(* Between _remove_assignment(i) and _add_assignment(i, .): the component  *)
(* of i is a tree without a directed cycle, and every c-path in it ends at *)
(* the unassigned i.                                                       *)
TreeAroundUnassigned ==
    AfterRemove =>
        LET comp == Component(g, cur)
        IN  /\ c[cur] = Unassigned
            /\ CyclesIn(c, comp) = {}
            /\ \A j \in comp : cur \in Path(c, j) /\ Path(c, j) \subseteq comp \cup {Unassigned}
            /\ Cardinality(EdgesIn(g, comp)) = Cardinality(comp) - 1
            /\ LoopsIn(g, comp) = {}

(* After the _add_assignment(i, t): a target of the same cluster has made  *)
(* one cycle, through i, and left z alone; a target of another cluster has *)
(* joined the tree to the component of t, whose one cycle is the only one. *)
AddClosesOrAttaches ==
    AfterAdd =>
        LET pre == last.pre
            i == cur
            t == c[cur]
            comp == Component(g, i)
        IN  IF pre.z[i] = pre.z[t]
            THEN /\ z = pre.z
                 /\ comp = Component(pre.g, i)
                 /\ CyclesIn(pre.c, comp) = {}
                 /\ CyclesIn(c, comp) = {Path(c, i)}
                 /\ OnCycle(c, i)
            ELSE /\ comp = Component(pre.g, i) \cup Component(pre.g, t)
                 /\ Component(pre.g, i) \cap Component(pre.g, t) = {}
                 /\ ~OnCycle(c, i)
                 /\ Cardinality(CyclesIn(pre.c, Component(pre.g, t))) = 1
                 /\ CyclesIn(c, comp) = CyclesIn(pre.c, Component(pre.g, t))

(* C18: between the two calls the component of i is a tree whose c-paths   *)
(* end at the unassigned i; the new link then closes exactly one cycle     *)
(* (same cluster, z unchanged) or attaches the tree to a component that    *)
(* has its one cycle (other cluster).                                      *)
C18_TreeBetweenCalls == TreeAroundUnassigned /\ AddClosesOrAttaches

(* The unassigned customer is the root of a tree of three customers, next  *)
(* to another table.                                                       *)
C18_Witness ==
    /\ AfterRemove /\ N = 4
    /\ Cardinality(Component(g, cur)) = 3
    /\ K = 2

(* A tree of two customers has been linked into a cycle of two others. *)
C18_WitnessAttach ==
    /\ AfterAdd /\ N = 4
    /\ last.pre.z[cur] # last.pre.z[c[cur]]
    /\ Cardinality(Component(last.pre.g, cur)) = 2
    /\ CyclesIn(c, Customers) = {Customers \ Component(last.pre.g, cur)}

=============================================================================
